---- MODULE Spec2Model ----
(***************************************************************************)
(* Model of src/etl/ons_uk_footfall_ingest.py: the ONS retail-footfall     *)
(* normalisation pipeline (_normalize_table, the six _melt_* strategies,   *)
(* parse_footfall_data, upsert_dataframe, main).                           *)
(*                                                                         *)
(* Text is a sequence of one-character strings.  A cell of a DataFrame is  *)
(* a record [t, s, n]: t is the kind ("str", "num", "date", "nan", "none", *)
(* "nat"), s the text of a "str", n the value of a "num" or the calendar   *)
(* day of a "date" written yyyymmdd.                                       *)
(***************************************************************************)
EXTENDS Integers, Sequences, FiniteSets, TLC

VARIABLES
    grid,       \* SpecNorm: the raw sheet handed to _normalize_table
    norm,       \* SpecNorm: what _normalize_table returned (or raised)
    table,      \* reshape specs: the normalized wide table
    long,       \* reshape specs: the melted table, with the strategy that made it
    out,        \* reshape specs: the table parse_footfall_data returns for it
    stage,      \* position of the specification's run
    wb,         \* SpecMain: the workbook, its sheets in the order of xls.keys()
    ret,        \* SpecMain: how main ended
    db,         \* the stored table uk_retail_footfall (committed rows)
    df,         \* SpecUpsert: the long table handed to upsert_dataframe
    runs,       \* SpecUpsert: upsert_dataframe calls made so far
    first,      \* SpecUpsert: the stored table as the first call left it
    clock,      \* the database's now()
    txn,        \* SpecConc: the open transaction of every ingestion run
    serial      \* SpecConc: the committed batches applied one after another

pipeVars  == <<grid, norm, table, long, out>>
storeVars == <<wb, ret, db, df, runs, first, clock, txn, serial>>
vars == <<grid, norm, table, long, out, stage, wb, ret, db, df, runs, first, clock, txn, serial>>

----------------------------------------------------------------------------
(* Cells *)

Str(s)  == [t |-> "str",  s |-> s,    n |-> 0]
Num(k)  == [t |-> "num",  s |-> <<>>, n |-> k]
Day(k)  == [t |-> "date", s |-> <<>>, n |-> k]
NaN     == [t |-> "nan",  s |-> <<>>, n |-> 0]
None    == [t |-> "none", s |-> <<>>, n |-> 0]
NaT     == [t |-> "nat",  s |-> <<>>, n |-> 0]

\* pd.isna / what dropna counts as missing
IsNA(c) == c.t \in {"nan", "none", "nat"}

----------------------------------------------------------------------------
(* Text *)

\* str.strip() and the regex class \s: the whitespace characters drawn here
Whitespace == {" ", "\t", "\n"}

Digits == <<"0", "1", "2", "3", "4", "5", "6", "7", "8", "9">>

DateText    == <<"D", "a", "t", "e">>
UnnamedText == <<"U", "n", "n", "a", "m", "e", "d">>
NanText     == <<"n", "a", "n">>
NoneText    == <<"N", "o", "n", "e">>
AllText     == <<"a", "l", "l">>
UKTotalText == <<"U", "K", " ", "t", "o", "t", "a", "l">>

DistrictOrLocalCentre ==
    <<"D", "i", "s", "t", "r", "i", "c", "t", " ", "o", "r", " ",
      "L", "o", "c", "a", "l", " ", "C", "e", "n", "t", "r", "e">>
RetailParks ==
    <<"R", "e", "t", "a", "i", "l", " ", "P", "a", "r", "k", "s">>
TownAndCityCentres ==
    <<"T", "o", "w", "n", " ", "a", "n", "d", " ",
      "C", "i", "t", "y", " ", "C", "e", "n", "t", "r", "e", "s">>

\* SITE_TYPES, in the list's order (also the order of the regex alternation)
SITE_TYPES == <<DistrictOrLocalCentre, RetailParks, TownAndCityCentres>>

\* str.startswith / str.endswith
StartsWith(s, p) == Len(s) >= Len(p) /\ SubSeq(s, 1, Len(p)) = p
EndsWith(s, p)   == Len(s) >= Len(p) /\ SubSeq(s, Len(s) - Len(p) + 1, Len(s)) = p

\* str.strip(): drop leading and trailing whitespace
Strip(s) ==
    LET keep == {i \in 1..Len(s) : s[i] \notin Whitespace}
    IN  IF keep = {} THEN <<>>
        ELSE LET lo == CHOOSE i \in keep : \A j \in keep : i <= j
                 hi == CHOOSE i \in keep : \A j \in keep : j <= i
             IN  SubSeq(s, lo, hi)

\* str() of a non-negative int
RECURSIVE IntText(_)
IntText(k) == IF k < 10 THEN <<Digits[k + 1]>>
              ELSE IntText(k \div 10) \o <<Digits[(k % 10) + 1]>>

\* Series.astype(str) on an object column: str(value) of every element, the
\* missing ones included (str(nan) is "nan", str(None) is "None")
AsTypeStr(c) ==
    CASE c.t = "str"  -> c.s
      [] c.t = "num"  -> IntText(c.n)
      [] c.t = "date" -> IntText(c.n)
      [] c.t = "nan"  -> NanText
      [] c.t = "none" -> NoneText
      [] OTHER        -> <<"N", "a", "T">>

----------------------------------------------------------------------------
(* _site_type_re and the two label splitters *)

\* The matches of  (.*)\s+(A|B|C)$  anchored at the start of s (re.match):
\* group 1 is s[1..i] and holds no line break, s[i+1..j] is whitespace, the
\* label is s[j+1..e], and $ is the end of s or the place before a final
\* line break.
SiteTypeMatches(s) ==
    {m \in [i : 0..Len(s), j : 1..Len(s), k : 1..Len(SITE_TYPES)] :
        /\ m.i < m.j
        /\ \A x \in 1..m.i : s[x] # "\n"
        /\ \A x \in (m.i + 1)..m.j : s[x] \in Whitespace
        /\ LET e == m.j + Len(SITE_TYPES[m.k])
           IN  /\ e <= Len(s)
               /\ SubSeq(s, m.j + 1, e) = SITE_TYPES[m.k]
               /\ \/ e = Len(s)
                  \/ e = Len(s) - 1 /\ s[Len(s)] = "\n"}

\* Faulty variant, kept to show the property below detects it: the pattern written (.*\s+)(A|B|C)$: group 1 keeps the separator
SiteTypeMatchKeepSep(s) ==
    LET ms == SiteTypeMatches(s)
    IN  IF ms = {} THEN [found |-> FALSE, g1 |-> <<>>, g2 |-> <<>>]
        ELSE LET best == CHOOSE m \in ms :
                           \A o \in ms : \/ o.i < m.i
                                         \/ o.i = m.i /\ m.k <= o.k
             IN  [found |-> TRUE,
                  g1 |-> SubSeq(s, 1, best.j),
                  g2 |-> SITE_TYPES[best.k]]

\* _site_type_re.match(s): the greedy (.*) takes the longest group 1, then
\* the alternation takes its first label that fits.  groups() is <<g1, g2>>.
SiteTypeMatch(s) ==
    LET ms == SiteTypeMatches(s)
    IN  IF ms = {} THEN [found |-> FALSE, g1 |-> <<>>, g2 |-> <<>>]
        ELSE LET best == CHOOSE m \in ms :
                           \A o \in ms : \/ o.i < m.i
                                         \/ o.i = m.i /\ m.k <= o.k
             IN  [found |-> TRUE,
                  g1 |-> SubSeq(s, 1, best.i),
                  g2 |-> SITE_TYPES[best.k]]

\* split_combo of _melt_week_region_site
SplitComboFallback(s) ==
    LET fits == {k \in 1..Len(SITE_TYPES) : EndsWith(s, SITE_TYPES[k])}
    IN  IF fits = {} THEN [region |-> Str(s), site_type |-> None]
        ELSE LET k == CHOOSE x \in fits : \A y \in fits : x <= y
             IN  [region    |-> Str(Strip(SubSeq(s, 1, Len(s) - Len(SITE_TYPES[k])))),
                  site_type |-> Str(SITE_TYPES[k])]

split_combo(c) ==
    IF IsNA(c) THEN [region |-> None, site_type |-> None]
    ELSE LET s == AsTypeStr(c)
             m == SiteTypeMatch(s)
         IN  IF m.found
             THEN [region |-> Str(Strip(m.g1)), site_type |-> Str(Strip(m.g2))]
             ELSE SplitComboFallback(s)

\* the lambda of _melt_month_region_site
month_split(c) ==
    LET s == AsTypeStr(c)
        m == SiteTypeMatch(s)
    IN  IF m.found
        THEN [region |-> Str(m.g1), site_type |-> Str(m.g2)]
        ELSE [region |-> Str(s), site_type |-> None]

----------------------------------------------------------------------------
(* Calendar: a day is the number yyyymmdd *)

YearOf(d)  == d \div 10000
MonthOf(d) == (d \div 100) % 100
DomOf(d)   == d % 100
MkDay(y, m, dd) == y * 10000 + m * 100 + dd

IsLeap(y) == y % 4 = 0 /\ (y % 100 # 0 \/ y % 400 = 0)

DaysInMonth(y, m) ==
    IF m = 2 THEN (IF IsLeap(y) THEN 29 ELSE 28)
    ELSE IF m \in {4, 6, 9, 11} THEN 30 ELSE 31

\* Timestamp - Timedelta(days=k), one day at a time
RECURSIVE MinusDays(_, _)
MinusDays(d, k) ==
    IF k = 0 THEN d
    ELSE LET y == YearOf(d)
             m == MonthOf(d)
             prev == IF DomOf(d) > 1 THEN d - 1
                     ELSE IF m > 1 THEN MkDay(y, m - 1, DaysInMonth(y, m - 1))
                     ELSE MkDay(y - 1, 12, 31)
         IN  MinusDays(prev, k - 1)

\* Timestamp + pd.offsets.MonthEnd(1): the next month end strictly after the
\* day, so a day that already is a month end moves to the end of the next month
PlusMonthEnd1(d) ==
    LET y == YearOf(d)
        m == MonthOf(d)
    IN  IF DomOf(d) < DaysInMonth(y, m) THEN MkDay(y, m, DaysInMonth(y, m))
        ELSE IF m < 12 THEN MkDay(y, m + 1, DaysInMonth(y, m + 1))
        ELSE MkDay(y + 1, 1, 31)

----------------------------------------------------------------------------
(* _normalize_table *)

Width(g) == IF Len(g) = 0 THEN 0 ELSE Len(g[1])

IsDateCell(c) == c.t = "str" /\ Strip(c.s) = DateText

\* the positions of the cells whose stripped text is "Date"
DateCells(g) ==
    {p \in (1..Len(g)) \X (1..Width(g)) : IsDateCell(g[p[1]][p[2]])}

\* the first of them in row-major order
FirstDateCell(g) ==
    CHOOSE p \in DateCells(g) :
        \A q \in DateCells(g) : p[1] < q[1] \/ (p[1] = q[1] /\ p[2] <= q[2])

\* the subsequence of s at the positions satisfying keep, in order
RECURSIVE SelectAt(_, _, _)
SelectAt(s, keep, i) ==
    IF i > Len(s) THEN <<>>
    ELSE (IF i \in keep THEN <<s[i]>> ELSE <<>>) \o SelectAt(s, keep, i + 1)

NoTable == [ok |-> FALSE, err |-> "none", cols |-> <<>>, rows |-> <<>>, src |-> <<>>]

\* src is not a value of the program: it records, for each kept column, the
\* column of the raw grid it came from, and is read only by the properties.
_normalize_table(g) ==
    IF DateCells(g) = {}
    THEN [NoTable EXCEPT !.err = "no header row containing Date"]
    ELSE
      LET hr      == FirstDateCell(g)[1]
          hc      == FirstDateCell(g)[2]
          w       == Width(g) - hc + 1
          \* trimmed.columns = trimmed.iloc[header_row].astype(str).tolist()
          names   == [j \in 1..w |-> AsTypeStr(g[hr][hc + j - 1])]
          \* ~columns.str.contains(r"^Unnamed")
          keepCol == {j \in 1..w : ~StartsWith(names[j], UnnamedText)}
          below   == [i \in 1..(Len(g) - hr) |->
                        SelectAt([j \in 1..w |-> g[hr + i][hc + j - 1]], keepCol, 1)]
          \* dropna(how="all")
          keepRow == {i \in 1..Len(below) : \E j \in 1..Len(below[i]) : ~IsNA(below[i][j])}
          cols    == SelectAt(names, keepCol, 1)
      IN  IF \A j \in 1..Len(cols) : cols[j] # DateText
          THEN [NoTable EXCEPT !.err = "no Date column after header detection"]
          ELSE [ok   |-> TRUE, err |-> "none",
                cols |-> cols,
                rows |-> SelectAt(below, keepRow, 1),
                src  |-> SelectAt([j \in 1..w |-> hc + j - 1], keepCol, 1)]

----------------------------------------------------------------------------
(* The six melt strategies.  A normalized table is [cols, rows]; a melted    *)
(* row is [Date, region, site_type, period_type, footfall_index].            *)

DatePos(t) == CHOOSE j \in 1..Len(t.cols) : t.cols[j] = DateText

\* the positions of the value columns (all but "Date"), in column order
ValuePos(t) == SelectAt([j \in 1..Len(t.cols) |-> j], (1..Len(t.cols)) \ {DatePos(t)}, 1)

\* DataFrame.melt(id_vars=["Date"], var_name=..., value_name=...): for each
\* value column in order, one row per table row, in row order
Melt(t) ==
    LET vp == ValuePos(t)
        r  == Len(t.rows)
    IN  [k \in 1..(r * Len(vp)) |->
            LET j == vp[((k - 1) \div r) + 1]
                i == ((k - 1) % r) + 1
            IN  [Date     |-> t.rows[i][DatePos(t)],
                 variable |-> Str(t.cols[j]),
                 value    |-> t.rows[i][j]]]

MeltRegion(t, ptype) ==
    LET m == Melt(t)
    IN  [k \in 1..Len(m) |->
            [Date |-> m[k].Date, region |-> m[k].variable, site_type |-> Str(AllText),
             period_type |-> ptype, footfall_index |-> m[k].value]]

MeltSite(t, ptype) ==
    LET m == Melt(t)
    IN  [k \in 1..Len(m) |->
            [Date |-> m[k].Date, region |-> Str(UKTotalText), site_type |-> m[k].variable,
             period_type |-> ptype, footfall_index |-> m[k].value]]

_melt_week_region(t)  == MeltRegion(t, "week")
_melt_week_site(t)    == MeltSite(t, "week")
_melt_month_region(t) == MeltRegion(t, "month")
_melt_month_site(t)   == MeltSite(t, "month")

_melt_week_region_site(t) ==
    LET m == Melt(t)
    IN  [k \in 1..Len(m) |->
            LET parts == split_combo(m[k].variable)
            IN  [Date |-> m[k].Date, region |-> parts.region, site_type |-> parts.site_type,
                 period_type |-> "week", footfall_index |-> m[k].value]]

_melt_month_region_site(t) ==
    LET m == Melt(t)
    IN  [k \in 1..Len(m) |->
            LET parts == month_split(m[k].variable)
            IN  [Date |-> m[k].Date, region |-> parts.region, site_type |-> parts.site_type,
                 period_type |-> "month", footfall_index |-> m[k].value]]

----------------------------------------------------------------------------
(* parse_footfall_data, steps 3 and 4, on the concatenated melted rows *)

\* pd.to_datetime(..., errors="coerce") on the cells drawn here: a date
\* stays, anything else (text that is no date, an empty cell) becomes NaT
ToDatetime(c) == IF c.t = "date" THEN c ELSE NaT

\* period_start_dt: date where period_type is month, else date - 6 days
PeriodStart(date, ptype) ==
    IF date.t # "date" THEN NaT
    ELSE IF ptype = "month" THEN date ELSE Day(MinusDays(date.n, 6))

\* period_end_dt: date, and for the month rows period_start_dt + MonthEnd(1)
PeriodEnd(date, ptype) ==
    IF date.t # "date" THEN NaT
    ELSE IF ptype = "month" THEN Day(PlusMonthEnd1(PeriodStart(date, ptype).n))
    ELSE date

\* .astype(str).str.strip(), then the cells equal to "nan" are set to None
CleanText(c) ==
    LET s == Strip(AsTypeStr(c))
    IN  IF s = NanText THEN None ELSE Str(s)

\* the value of a run of decimal digits
RECURSIVE DigitsValue(_)
DigitsValue(s) ==
    IF s = <<>> THEN 0
    ELSE 10 * DigitsValue(SubSeq(s, 1, Len(s) - 1))
         + (CHOOSE v \in 0..9 : Digits[v + 1] = s[Len(s)])

\* pd.to_numeric(..., errors="coerce") on the cells drawn here: a number
\* stays, text of decimal digits is read, anything else becomes NaN
ToNumeric(c) ==
    IF c.t = "num" THEN c
    ELSE IF c.t = "str" /\ c.s # <<>> /\ \A i \in 1..Len(c.s) : \E v \in 1..10 : Digits[v] = c.s[i]
    THEN Num(DigitsValue(c.s))
    ELSE NaN

FinalRow(r, version) ==
    [period_start_dt |-> PeriodStart(ToDatetime(r.Date), r.period_type),
     period_end_dt   |-> PeriodEnd(ToDatetime(r.Date), r.period_type),
     period_type     |-> r.period_type,
     region          |-> CleanText(r.region),
     site_type       |-> CleanText(r.site_type),
     footfall_index  |-> ToNumeric(r.footfall_index),
     version         |-> version]

\* Faulty variant, kept to show the property below detects it: a dropna on footfall_index before returning
FinalTableDropMissing(rows, version) ==
    LET all == [k \in 1..Len(rows) |-> FinalRow(rows[k], version)]
    IN  SelectAt(all, {k \in 1..Len(all) : all[k].footfall_index.t = "num"}, 1)

\* lines 241-273: every row of the concatenation is kept and rewritten
FinalTable(rows, version) == [k \in 1..Len(rows) |-> FinalRow(rows[k], version)]

----------------------------------------------------------------------------
(* Bounds and input sets *)

MaxPrefix   == 3      \* characters drawn in front of the label of a header
LastYear    == 2025   \* the calendar drawn runs from 2023 to this year
MaxRows     == 2      \* rows of a drawn wide table
MaxCols     == 2      \* value columns of a drawn wide table
MaxCells    == 6      \* value cells of a drawn wide table
MaxGridRows == 3      \* rows of a drawn raw grid
MaxGridCols == 3      \* columns of a drawn raw grid
MaxGridSize == 6      \* cells of a drawn raw grid

\* all sequences over S of length at most n
RECURSIVE SeqsUpTo(_, _)
SeqsUpTo(S, n) ==
    IF n = 0 THEN {<<>>}
    ELSE LET shorter == SeqsUpTo(S, n - 1)
         IN  shorter \cup {Append(q, x) : q \in {r \in shorter : Len(r) = n - 1}, x \in S}

\* the header cells of a combined sheet: text in front, a label or none, and
\* possibly one trailing whitespace character; or an empty header cell
HeaderCells ==
    {Str(pre \o lab \o tail) :
        pre  \in SeqsUpTo({"A", " ", "\t", "\n"}, MaxPrefix),
        lab  \in {<<>>, DistrictOrLocalCentre, RetailParks, TownAndCityCentres},
        tail \in {<<>>, <<" ">>, <<"\n">>}}
    \cup {NaN}

AllDays ==
    UNION {{MkDay(ym[1], ym[2], dd) : dd \in 1..DaysInMonth(ym[1], ym[2])} :
             ym \in (2023..LastYear) \X (1..12)}

\* value-column headers of the drawn wide tables
ColumnPool ==
    <<<<"A">> \o <<" ">> \o RetailParks,
      <<"B">>,
      <<"A">> \o <<" ">> \o TownAndCityCentres,
      RetailParks>>

\* cells of the drawn wide tables: a number, an empty cell, text that is no number
ValueCells == {Num(5), NaN, Str(<<"n", "/", "a">>)}

\* s with x put at position p
InsertAt(s, p, x) == SubSeq(s, 1, p - 1) \o <<x>> \o SubSeq(s, p, Len(s))

\* a drawn wide table: r rows and n value columns, the Date column at
\* position dp, row i dated 7*i March 2025, its value cells cells[(i-1)*n+1..i*n]
WideTable(r, n, dp, cells) ==
    [ok |-> TRUE, err |-> "none", src |-> <<>>,
     cols |-> InsertAt(SubSeq(ColumnPool, 1, n), dp, DateText),
     rows |-> [i \in 1..r |->
                 InsertAt([j \in 1..n |-> cells[(i - 1) * n + j]], dp,
                          Day(20250300 + 7 * i))]]

GridCells == {NaN, Str(DateText), Str(<<" ">> \o DateText),
              Str(UnnamedText \o <<":", " ", "1">>), Str(<<"X">>)}

GridShapes ==
    {sh \in (1..MaxGridRows) \X (1..MaxGridCols) : sh[1] * sh[2] <= MaxGridSize}

Grids == UNION {[1..sh[1] -> [1..sh[2] -> GridCells]] : sh \in GridShapes}

ReshapeVersion == "2025-03-12"

NoLong == [strategy |-> "none", rows |-> <<>>]

----------------------------------------------------------------------------
(* Specifications of the reshape pipeline: a wide table is melted by one of *)
(* the six strategies and then rewritten by parse_footfall_data.            *)

NoRet == [status |-> "none", picked |-> <<>>, rows |-> <<>>, upserted |-> FALSE]

InitIdleStore ==
    /\ wb = <<>>
    /\ ret = NoRet
    /\ db = {}
    /\ df = <<>>
    /\ runs = 0
    /\ first = {}
    /\ clock = 0
    /\ txn = <<>>
    /\ serial = {}

InitIdleNorm == grid = <<>> /\ norm = NoTable /\ InitIdleStore

InitIdlePipe ==
    /\ grid = <<>>
    /\ norm = NoTable
    /\ table = NoTable
    /\ long = NoLong
    /\ out = <<>>

InitReshape(T) ==
    /\ table \in T
    /\ long = NoLong
    /\ out = <<>>
    /\ stage = "table"
    /\ InitIdleNorm

\* one table row with the date d, one value column
InitDate ==
    InitReshape({[ok |-> TRUE, err |-> "none", src |-> <<>>,
                  cols |-> <<DateText, <<"A">> >>,
                  rows |-> << <<Day(d), Num(5)>> >>] : d \in AllDays})

\* one table row, one value column whose header is the text of a header cell
InitLabel ==
    InitReshape({[ok |-> TRUE, err |-> "none", src |-> <<>>,
                  cols |-> <<DateText, AsTypeStr(c)>>,
                  rows |-> << <<Day(20250314), Num(5)>> >>] : c \in HeaderCells})

\* the Date column is the first or the last column
InitMelt ==
    /\ \E r \in 0..MaxRows, n \in 0..MaxCols :
          /\ r * n <= MaxCells
          /\ \E dp \in {1, n + 1}, cells \in [1..(r * n) -> ValueCells] :
                table = WideTable(r, n, dp, cells)
    /\ long = NoLong
    /\ out = <<>>
    /\ stage = "table"
    /\ InitIdleNorm

MeltStep(name, rows) ==
    /\ stage = "table"
    /\ long' = [strategy |-> name, rows |-> rows]
    /\ stage' = "long"
    /\ UNCHANGED <<grid, norm, table, out>>
    /\ UNCHANGED storeVars

MeltWeekRegion      == MeltStep("week_region", _melt_week_region(table))
MeltWeekSite        == MeltStep("week_site", _melt_week_site(table))
MeltWeekRegionSite  == MeltStep("week_region_site", _melt_week_region_site(table))
MeltMonthRegion     == MeltStep("month_region", _melt_month_region(table))
MeltMonthSite       == MeltStep("month_site", _melt_month_site(table))
MeltMonthRegionSite == MeltStep("month_region_site", _melt_month_region_site(table))

Finalize ==
    /\ stage = "long"
    /\ out' = FinalTable(long.rows, ReshapeVersion)
    /\ stage' = "out"
    /\ UNCHANGED <<grid, norm, table, long>>
    /\ UNCHANGED storeVars

NextReshape ==
    \/ MeltWeekRegion
    \/ MeltWeekSite
    \/ MeltWeekRegionSite
    \/ MeltMonthRegion
    \/ MeltMonthSite
    \/ MeltMonthRegionSite
    \/ Finalize

SpecDate  == InitDate /\ [][NextReshape]_vars
SpecLabel == InitLabel /\ [][NextReshape]_vars
SpecMelt  == InitMelt /\ [][NextReshape]_vars

----------------------------------------------------------------------------
(* Specification of _normalize_table on a raw grid *)

InitNorm ==
    /\ grid \in Grids
    /\ norm = NoTable
    /\ table = NoTable
    /\ long = NoLong
    /\ out = <<>>
    /\ stage = "grid"
    /\ InitIdleStore

NormalizeTable ==
    /\ stage = "grid"
    /\ norm' = _normalize_table(grid)
    /\ stage' = "normalized"
    /\ UNCHANGED <<grid, table, long, out>>
    /\ UNCHANGED storeVars

NextNorm == NormalizeTable

SpecNorm == InitNorm /\ [][NextNorm]_vars

----------------------------------------------------------------------------
(* upsert_dataframe.  A stored row is a returned record plus inserted_at.   *)
(* The conflict target is the table's primary key, so its columns are NOT   *)
(* NULL; every page of execute_values is one INSERT ... ON CONFLICT         *)
(* statement; all pages run in the one transaction of "with connect(...)",  *)
(* which commits at the end and rolls back when a statement raises.         *)

MaxBatch == 3     \* records of a drawn long table
PageSize == 2     \* page_size of execute_values (1000 in the code)
MaxRuns  == 2     \* upsert_dataframe calls in a run of SpecUpsert

\* on conflict (period_type, period_end_dt, region, site_type, version)
Key(r) == <<r.period_type, r.period_end_dt, r.region, r.site_type, r.version>>

\* the primary key holds: no two rows of S share the key
KeyUnique(S) == \A a, b \in S : Key(a) = Key(b) => a = b

\* the rows of S without regard to inserted_at
Unstamped(S) == {[x EXCEPT !.inserted_at = 0] : x \in S}

Stored(r, now) ==
    [period_start_dt |-> r.period_start_dt, period_end_dt |-> r.period_end_dt,
     period_type |-> r.period_type, region |-> r.region, site_type |-> r.site_type,
     footfall_index |-> r.footfall_index, version |-> r.version, inserted_at |-> now]

\* a record the statement raises on: a NULL in a primary-key column, or a
\* NaT date, which psycopg2 cannot adapt
Rejected(r) ==
    \/ r.region = None
    \/ r.site_type = None
    \/ r.period_end_dt.t # "date"
    \/ r.period_start_dt.t # "date"

\* Faulty variant, kept to show the property below detects it: the DO UPDATE without period_start_dt
UpsertRowKeepStart(tbl, r, now) ==
    LET hit == {s \in tbl : Key(s) = Key(r)}
    IN  IF hit = {} THEN tbl \cup {Stored(r, now)}
        ELSE (tbl \ hit) \cup
             {[s EXCEPT !.footfall_index = r.footfall_index,
                        !.inserted_at = now] : s \in hit}

\* Faulty variant, kept to show the property below detects it: a plain INSERT, without the ON CONFLICT clause and its key
UpsertRowNoConflict(tbl, r, now) == tbl \cup {Stored(r, now)}

\* one record of the statement: insert, or on a key conflict update
\* footfall_index, period_start_dt and inserted_at of the stored row
UpsertRow(tbl, r, now) ==
    LET hit == {s \in tbl : Key(s) = Key(r)}
    IN  IF hit = {} THEN tbl \cup {Stored(r, now)}
        ELSE (tbl \ hit) \cup
             {[s EXCEPT !.footfall_index = r.footfall_index,
                        !.period_start_dt = r.period_start_dt,
                        !.inserted_at = now] : s \in hit}

\* execute_values from record i on; touched holds the keys the current
\* statement has written (a second write of a row by one ON CONFLICT DO
\* UPDATE statement raises)
RECURSIVE ExecuteValues(_, _, _, _, _)
ExecuteValues(tbl, recs, i, touched, now) ==
    IF i > Len(recs) THEN [ok |-> TRUE, rows |-> tbl]
    ELSE LET seen == IF (i - 1) % PageSize = 0 THEN {} ELSE touched
         IN  IF Rejected(recs[i]) \/ Key(recs[i]) \in seen
             THEN [ok |-> FALSE, rows |-> tbl]
             ELSE ExecuteValues(UpsertRow(tbl, recs[i], now), recs, i + 1,
                                seen \cup {Key(recs[i])}, now)

\* the stored table after the call, and whether the call committed
upsert_dataframe(tbl, recs, now) ==
    LET r == ExecuteValues(tbl, recs, 1, {}, now)
    IN  IF r.ok THEN r ELSE [ok |-> FALSE, rows |-> tbl]

\* returned records of the drawn long tables
Rec(ptype, s, e, region, value) ==
    [period_start_dt |-> s, period_end_dt |-> e, period_type |-> ptype,
     region |-> region, site_type |-> Str(AllText), footfall_index |-> value,
     version |-> ReshapeVersion]

\* two month records of one key (the source dates 1 and 5 March), a week
\* record without value, a record without region, a record without date
RecordPool ==
    {Rec("month", Day(20250301), Day(20250331), Str(<<"A">>), Num(1)),
     Rec("month", Day(20250305), Day(20250331), Str(<<"A">>), Num(2)),
     Rec("week", Day(20250308), Day(20250314), Str(<<"A">>), NaN),
     Rec("week", Day(20250308), Day(20250314), None, Num(5)),
     Rec("week", NaT, NaT, Str(<<"A">>), Num(5))}

\* stored tables an earlier ingestion can have left: one row per key
InitialStores ==
    {S \in SUBSET {Stored(r, 0) : r \in {x \in RecordPool : ~Rejected(x)}} :
        \A a, b \in S : Key(a) = Key(b) => a = b}

InitUpsert ==
    /\ db \in InitialStores
    /\ df \in SeqsUpTo(RecordPool, MaxBatch)
    /\ runs = 0
    /\ first = {}
    /\ clock = 1
    /\ ret = NoRet
    /\ wb = <<>>
    /\ txn = <<>>
    /\ serial = {}
    /\ stage = "upsert"
    /\ InitIdlePipe

\* one call of upsert_dataframe(df), at the database time clock
UpsertDataframe ==
    /\ stage = "upsert"
    /\ runs < MaxRuns
    /\ LET r == upsert_dataframe(db, df, clock)
       IN  /\ db' = r.rows
           /\ ret' = [NoRet EXCEPT !.status = IF r.ok THEN "ok" ELSE "error",
                                   !.upserted = TRUE]
           /\ first' = IF runs = 0 THEN r.rows ELSE first
    /\ runs' = runs + 1
    /\ clock' = clock + 1
    /\ UNCHANGED <<wb, df, txn, serial, stage>>
    /\ UNCHANGED pipeVars

NextUpsert == UpsertDataframe

SpecUpsert == InitUpsert /\ [][NextUpsert]_vars

----------------------------------------------------------------------------
(* parse_footfall_data and main on a workbook.  A sheet name is its sequence *)
(* of words; a workbook is the sequence of its sheets [name, grid] in the    *)
(* order of xls.keys().                                                      *)

\* str.lower() of the words drawn here
Lower(w) ==
    CASE w = "Weekly"  -> "weekly"
      [] w = "Monthly" -> "monthly"
      [] OTHER         -> w

LowerAll(s) == [i \in 1..Len(s) |-> Lower(s[i])]

\* p in s, word by word
Contains(s, p) ==
    \E o \in 0..(Len(s) - Len(p)) : SubSeq(s, o + 1, o + Len(p)) = p

\* the name_part arguments of the six _pick calls, in call order
NameParts ==
    <<<<"Weekly", "by", "region">>,
      <<"Weekly", "by", "site", "type">>,
      <<"Weekly", "by", "region", "and", "site">>,
      <<"Monthly", "by", "region">>,
      <<"Monthly", "by", "site", "type">>,
      <<"Monthly", "by", "region", "and", "site">>>>

\* the sheet each call is written for
SheetNames ==
    <<<<"Weekly", "by", "region">>,
      <<"Weekly", "by", "site", "type">>,
      <<"Weekly", "by", "region", "and", "site", "type">>,
      <<"Monthly", "by", "region">>,
      <<"Monthly", "by", "site", "type">>,
      <<"Monthly", "by", "region", "and", "site", "type">>>>

\* _pick: the index in the workbook of the first sheet whose lowered name
\* contains the lowered name_part; 0 stands for the KeyError
_pick(book, part) ==
    LET fits == {k \in 1..Len(book) : Contains(LowerAll(book[k].name), LowerAll(part))}
    IN  IF fits = {} THEN 0 ELSE CHOOSE k \in fits : \A o \in fits : k <= o

\* the melt applied to the table of the i-th pick
MeltOfRole(i, t) ==
    CASE i = 1 -> _melt_week_region(t)
      [] i = 2 -> _melt_week_site(t)
      [] i = 3 -> _melt_week_region_site(t)
      [] i = 4 -> _melt_month_region(t)
      [] i = 5 -> _melt_month_site(t)
      [] OTHER -> _melt_month_region_site(t)

RECURSIVE ConcatAll(_, _)
ConcatAll(parts, i) ==
    IF i > Len(parts) THEN <<>> ELSE parts[i] \o ConcatAll(parts, i + 1)

\* parse_footfall_data: the six picks and normalizations in order, the first
\* failure raising; then the six melts, the concatenation and steps 3 and 4.
\* picked lists the names of the sheets the calls resolved before the end.
parse_footfall_data(book, version) ==
    LET n     == Len(NameParts)
        pick  == [i \in 1..n |-> _pick(book, NameParts[i])]
        tab   == [i \in 1..n |->
                    IF pick[i] = 0 THEN NoTable ELSE _normalize_table(book[pick[i]].grid)]
        fails == {i \in 1..n : pick[i] = 0 \/ ~tab[i].ok}
        stop  == IF fails = {} THEN n + 1 ELSE CHOOSE i \in fails : \A o \in fails : i <= o
        names == [i \in 1..n |-> IF pick[i] = 0 THEN <<>> ELSE book[pick[i]].name]
    IN  IF fails # {}
        THEN [NoRet EXCEPT !.status = IF pick[stop] = 0 THEN "KeyError" ELSE "ValueError",
                           !.picked = SubSeq(names, 1, IF pick[stop] = 0 THEN stop - 1 ELSE stop)]
        ELSE [NoRet EXCEPT !.status = "ok",
                           !.picked = names,
                           !.rows = FinalTable(ConcatAll([i \in 1..n |-> MeltOfRole(i, tab[i])], 1),
                                               version)]

\* the grid of a drawn sheet: a title row, the header row, one data row.
\* kind "no_date" has no cell with the text Date, kind "padded_date" has
\* the text Date with a leading space.
SheetGrid(i, kind) ==
    LET head  == IF kind = "no_date" THEN Str(<<"P">>)
                 ELSE IF kind = "padded_date" THEN Str(<<" ">> \o DateText)
                 ELSE Str(DateText)
        label == IF i \in {1, 4} THEN <<"A">>
                 ELSE IF i \in {2, 5} THEN RetailParks
                 ELSE <<"A", " ">> \o RetailParks
        day   == IF i <= 3 THEN Day(20250314) ELSE Day(20250301)
    IN  << <<Str(<<"T">>), NaN>>, <<head, Str(label)>>, <<day, Num(i)>> >>

\* the rows stored before the run
MainStore == {Stored(Rec("week", Day(20250301), Day(20250307), Str(<<"A">>), Num(9)), 0)}

\* any selection of the six sheets in any order; at most one of them is
\* structurally broken
InitMain ==
    /\ \E k \in 0..Len(SheetNames) :
          \E order \in {f \in [1..k -> 1..Len(SheetNames)] :
                           \A a, b \in 1..k : f[a] = f[b] => a = b} :
             \E bad \in 0..Len(SheetNames), kind \in {"no_date", "padded_date"} :
                wb = [x \in 1..k |->
                        [name |-> SheetNames[order[x]],
                         grid |-> SheetGrid(order[x],
                                            IF order[x] = bad THEN kind ELSE "fine")]]
    /\ ret = NoRet
    /\ db = MainStore
    /\ df = <<>>
    /\ runs = 0
    /\ first = {}
    /\ clock = 1
    /\ txn = <<>>
    /\ serial = {}
    /\ stage = "main"
    /\ InitIdlePipe

\* main: parse the workbook, then upsert what parse returned
Main ==
    /\ stage = "main"
    /\ \E r \in {parse_footfall_data(wb, ReshapeVersion)} :
          IF r.status = "ok"
          THEN /\ ret' = [r EXCEPT !.upserted = TRUE]
               /\ db' = upsert_dataframe(db, r.rows, clock).rows
          ELSE /\ ret' = r
               /\ db' = db
    /\ stage' = "done"
    /\ UNCHANGED <<wb, df, runs, first, clock, txn, serial>>
    /\ UNCHANGED pipeVars

NextMain == Main

SpecMain == InitMain /\ [][NextMain]_vars

(* Properties of parse_footfall_data and main *)

\* the names of the sheets of the workbook
BookNames == {wb[x].name : x \in 1..Len(wb)}

\* C6: with the six expected sheets in the workbook, in any order, each of
\* the six roles is resolved to its own sheet; when the sheet of a role is
\* absent, parse_footfall_data fails with the sheet-not-found error.
\* (Stated for workbooks whose sheets are all well formed.)
C6_EveryRoleGetsItsOwnSheet ==
    (stage = "done" /\ \A x \in 1..Len(wb) : _normalize_table(wb[x].grid).ok) =>
        IF \A i \in 1..Len(SheetNames) : SheetNames[i] \in BookNames
        THEN ret.status = "ok" /\ ret.picked = SheetNames
        ELSE ret.status = "KeyError"

\* C9: in any run of main, if one of the six sheets is missing, has no cell
\* with the text Date or has no Date column after trimming, the run ends
\* with an error, upsert_dataframe is not called and the stored table is
\* what it was before the run.
C9_StructuralFailureWritesNothing ==
    (/\ stage = "done"
     /\ \/ \E i \in 1..Len(SheetNames) : SheetNames[i] \notin BookNames
        \/ \E x \in 1..Len(wb) : ~_normalize_table(wb[x].grid).ok)
    => /\ ret.status \in {"KeyError", "ValueError"}
       /\ ~ret.upserted
       /\ db = MainStore

----------------------------------------------------------------------------
(* Concurrent ingestion runs against one stored table.  Each run is one     *)
(* transaction (READ COMMITTED): its statements write row versions only it  *)
(* sees and lock the keys they write until the transaction ends; a run that *)
(* needs a key another open transaction has locked waits; commit publishes  *)
(* the versions; a raising statement, or being chosen as the victim of a    *)
(* deadlock, rolls the run back.                                            *)

NumRuns == 2      \* concurrent ingestion runs

ConcRuns == 1..NumRuns

\* the record of key tag g at position i of the batch of run r
ConcRecord(r, g, i) ==
    CASE g = "a" -> Rec("month", Day(20250300 + r), Day(20250331), Str(<<"A">>), Num(10 * r + i))
      [] g = "b" -> Rec("week", Day(20250308), Day(20250314), Str(<<"A">>), Num(10 * r + i))
      [] OTHER   -> Rec("week", Day(20250308), Day(20250314), None, Num(10 * r + i))

\* the batches drawn, as key tags: a key on two pages, both orders of two
\* keys, a later record that raises
ConcShapes == {<<"a", "b", "a">>, <<"b", "a">>, <<"a", "b">>, <<"b", "a", "null">>}

ConcBatch(r, shape) == [i \in 1..Len(shape) |-> ConcRecord(r, shape[i], i)]

KeysOf(S) == {Key(x) : x \in S}

InitConc ==
    /\ \E shapes \in [ConcRuns -> ConcShapes] :
          txn = [r \in ConcRuns |->
                   [pc |-> "idle", batch |-> ConcBatch(r, shapes[r]), i |-> 1,
                    writes |-> {}, locks |-> {}, touched |-> {}, now |-> 0]]
    /\ db = {Stored(Rec("month", Day(20250301), Day(20250331), Str(<<"A">>), Num(0)), 0)}
    /\ serial = db
    /\ clock = 1
    /\ wb = <<>>
    /\ ret = NoRet
    /\ df = <<>>
    /\ runs = 0
    /\ first = {}
    /\ stage = "conc"
    /\ InitIdlePipe

ConcFrame == UNCHANGED <<wb, ret, df, runs, first, stage>> /\ UNCHANGED pipeVars

\* Faulty variant, kept to show the property below detects it: autocommit: the work is committed after every page
CommitAfterEveryPage(i, n) == i > n \/ (i > 1 /\ (i - 1) % PageSize = 0)

\* conn.commit() runs once execute_values has sent every record
CommitPoint(i, n) == i > n

\* with connect(DB_URL) as conn: the transaction starts
Begin(r) ==
    /\ stage = "conc"
    /\ txn[r].pc = "idle"
    /\ txn' = [txn EXCEPT ![r].pc = "open", ![r].now = clock]
    /\ clock' = clock + 1
    /\ UNCHANGED <<db, serial>>
    /\ ConcFrame

\* the record the run sends next, and the keys its current statement wrote
NextRecord(r) == txn[r].batch[txn[r].i]
SeenByStatement(r) == IF (txn[r].i - 1) % PageSize = 0 THEN {} ELSE txn[r].touched

Sending(r) == txn[r].pc = "open" /\ txn[r].i <= Len(txn[r].batch)

Raises(r) == Rejected(NextRecord(r)) \/ Key(NextRecord(r)) \in SeenByStatement(r)

\* another open transaction holds the lock of the key the run writes next
Holders(r) ==
    {q \in ConcRuns \ {r} : txn[q].pc = "open" /\ Key(NextRecord(r)) \in txn[q].locks}

Waiting(r) == Sending(r) /\ ~Raises(r) /\ Holders(r) # {}

\* the table as the run sees it: the committed rows, its own versions on top
LocalView(r) == {x \in db : Key(x) \notin KeysOf(txn[r].writes)} \cup txn[r].writes

\* the statement writes one record
ExecRow(r) ==
    /\ stage = "conc"
    /\ Sending(r)
    /\ ~Raises(r)
    /\ Holders(r) = {}
    /\ LET k   == Key(NextRecord(r))
           new == UpsertRow(LocalView(r), NextRecord(r), txn[r].now)
       IN  txn' = [txn EXCEPT
                     ![r].writes  = {x \in new : Key(x) \in KeysOf(txn[r].writes) \cup {k}},
                     ![r].locks   = txn[r].locks \cup {k},
                     ![r].touched = SeenByStatement(r) \cup {k},
                     ![r].i       = txn[r].i + 1]
    /\ UNCHANGED <<db, serial, clock>>
    /\ ConcFrame

\* the statement raises: the with-block rolls the transaction back
RaiseAndRollback(r) ==
    /\ stage = "conc"
    /\ Sending(r)
    /\ Raises(r)
    /\ txn' = [txn EXCEPT ![r].pc = "failed", ![r].writes = {}, ![r].locks = {}]
    /\ UNCHANGED <<db, serial, clock>>
    /\ ConcFrame

\* q is reached from r along the waits-for relation in at most n steps
RECURSIVE WaitsOn(_, _, _)
WaitsOn(r, q, n) ==
    /\ n > 0
    /\ Waiting(r)
    /\ \E h \in Holders(r) : h = q \/ WaitsOn(h, q, n - 1)

\* the run waits in a cycle: the database aborts it as the deadlock victim
DeadlockAbort(r) ==
    /\ stage = "conc"
    /\ WaitsOn(r, r, NumRuns)
    /\ txn' = [txn EXCEPT ![r].pc = "failed", ![r].writes = {}, ![r].locks = {}]
    /\ UNCHANGED <<db, serial, clock>>
    /\ ConcFrame

\* conn.commit(): the versions of the run become the stored rows
Commit(r) ==
    /\ stage = "conc"
    /\ txn[r].pc = "open"
    /\ CommitPoint(txn[r].i, Len(txn[r].batch))
    /\ db' = {x \in db : Key(x) \notin KeysOf(txn[r].writes)} \cup txn[r].writes
    /\ serial' = upsert_dataframe(serial, txn[r].batch, txn[r].now).rows
    /\ txn' = [txn EXCEPT ![r].pc = "committed", ![r].writes = {}, ![r].locks = {}]
    /\ UNCHANGED clock
    /\ ConcFrame

NextConc ==
    \E r \in ConcRuns :
        \/ Begin(r)
        \/ ExecRow(r)
        \/ RaiseAndRollback(r)
        \/ DeadlockAbort(r)
        \/ Commit(r)

SpecConc == InitConc /\ [][NextConc]_vars

(* Properties of the concurrent runs *)

\* C10: under any interleaving of the runs the stored table is, at every
\* moment, what the whole batches of the committed runs give when applied
\* one after another in commit order: of a run that has not committed (still
\* open, rolled back after a raising record or a deadlock) no row is stored,
\* of a committed run every key is stored, and each stored row is the last
\* record of its key in the batch of one run.
C10_BatchesAreAtomic ==
    /\ db = serial
    /\ KeyUnique(db)
    /\ \A r \in ConcRuns :
          /\ txn[r].pc # "committed" =>
                \A x \in db : x.inserted_at # txn[r].now \/ txn[r].pc = "idle"
          /\ txn[r].pc = "committed" =>
                \A i \in 1..Len(txn[r].batch) : Key(txn[r].batch[i]) \in KeysOf(db)
    /\ \A x \in db :
          x.inserted_at = 0 \/
          \E r \in ConcRuns :
             /\ txn[r].pc = "committed"
             /\ x.inserted_at = txn[r].now
             /\ \E i \in 1..Len(txn[r].batch) :
                   /\ Key(txn[r].batch[i]) = Key(x)
                   /\ \A j \in (i + 1)..Len(txn[r].batch) : Key(txn[r].batch[j]) # Key(x)
                   /\ x.footfall_index = txn[r].batch[i].footfall_index
                   /\ x.period_start_dt = txn[r].batch[i].period_start_dt

\* two runs writing the same two keys have both committed: run 1, with a
\* batch of two pages, first, and run 2, which began earlier, after it, so
\* that both stored rows are those of run 2
C10_Witness ==
    /\ txn[1].pc = "committed"
    /\ txn[2].pc = "committed"
    /\ Len(txn[1].batch) = 3
    /\ Len(txn[2].batch) = 2
    /\ txn[2].now < txn[1].now
    /\ Cardinality(db) = 2
    /\ \A x \in db : x.inserted_at = txn[2].now

----------------------------------------------------------------------------
(* Properties of the reshape pipeline and of _normalize_table *)

CombinedStrategies == {"week_region_site", "month_region_site"}

\* the header of the one value column of a table of SpecLabel
LabelHeader == table.cols[2]

\* the day of the one row of a table of SpecDate
SourceDay == table.rows[1][1].n

LastDayOfMonth(d) == MkDay(YearOf(d), MonthOf(d), DaysInMonth(YearOf(d), MonthOf(d)))

\* C1: every returned record whose source date d is parseable has, for
\* period_type week, period_start = d - 6 days and period_end = d, and for
\* period_type month, period_start = d and period_end = the last calendar
\* day of the month that contains d, for every day of the month d can be.
C1_IntervalByPeriodType ==
    stage = "out" =>
        \A k \in 1..Len(out) :
            /\ out[k].period_type = "week" =>
                  /\ out[k].period_start_dt = Day(MinusDays(SourceDay, 6))
                  /\ out[k].period_end_dt = Day(SourceDay)
            /\ out[k].period_type = "month" =>
                  /\ out[k].period_start_dt = Day(SourceDay)
                  /\ out[k].period_end_dt = Day(LastDayOfMonth(SourceDay))

\* C2 as stated: for every combined header that, trimmed, ends in a known
\* label, both combined strategies give region and site_type with
\* region + " " + site_type = the trimmed header.
C2_RoundTripEveryHeader ==
    (/\ stage = "long"
     /\ long.strategy \in CombinedStrategies
     /\ \E k \in 1..Len(SITE_TYPES) : EndsWith(Strip(LabelHeader), SITE_TYPES[k]))
    => \A i \in 1..Len(long.rows) :
          /\ long.rows[i].region.t = "str"
          /\ long.rows[i].site_type.t = "str"
          /\ long.rows[i].region.s \o <<" ">> \o long.rows[i].site_type.s
               = Strip(LabelHeader)

\* a header that is a region text (not empty, no whitespace at either end, no
\* line break), one space, and the label SITE_TYPES[k]
IsRegionSpaceLabel(h, k) ==
    LET lab == SITE_TYPES[k]
        rl  == Len(h) - Len(lab) - 1
    IN  /\ rl >= 1
        /\ EndsWith(h, <<" ">> \o lab)
        /\ h[1] \notin Whitespace
        /\ h[rl] \notin Whitespace
        /\ \A x \in 1..rl : h[x] # "\n"

\* C2 amended: for every header of the form region + " " + label, with the
\* region not empty, free of leading and trailing whitespace and of line
\* breaks, both combined strategies give exactly that region and that label,
\* so region + " " + site_type = the header.
C2_RoundTripRegionSpaceLabel ==
    (stage = "long" /\ long.strategy \in CombinedStrategies)
    => \A k \in 1..Len(SITE_TYPES) :
          IsRegionSpaceLabel(LabelHeader, k) =>
             \A i \in 1..Len(long.rows) :
                /\ long.rows[i].site_type = Str(SITE_TYPES[k])
                /\ long.rows[i].region
                     = Str(SubSeq(LabelHeader, 1, Len(LabelHeader) - Len(SITE_TYPES[k]) - 1))
                /\ long.rows[i].region.s \o <<" ">> \o long.rows[i].site_type.s
                     = LabelHeader

\* the monthly combined strategy has split a header made of a two-character
\* region, one space and the label Retail Parks
C2_Witness ==
    /\ stage = "long"
    /\ long.strategy = "month_region_site"
    /\ IsRegionSpaceLabel(LabelHeader, 2)
    /\ Len(LabelHeader) = Len(RetailParks) + 3
    /\ Len(long.rows) = 1

\* C3: for every combined header that matches no known label (neither by
\* the pattern nor by the ends-with test), every returned record of that
\* column has site_type missing (null, not text) and region equal to the
\* trimmed header; an empty header cell gives both missing.
C3_NoMatchLeavesSiteTypeMissing ==
    (/\ stage = "out"
     /\ long.strategy \in CombinedStrategies
     /\ ~SiteTypeMatch(LabelHeader).found
     /\ \A k \in 1..Len(SITE_TYPES) : ~EndsWith(LabelHeader, SITE_TYPES[k]))
    => \A i \in 1..Len(out) :
          /\ out[i].site_type = None
          /\ out[i].region = IF LabelHeader = NanText THEN None
                             ELSE Str(Strip(LabelHeader))

\* the position in the table of its j-th value column
ValueColumn(j) ==
    LET dp == CHOOSE x \in 1..Len(table.cols) : table.cols[x] = DateText
    IN  IF j < dp THEN j ELSE j + 1

\* what a strategy must put in region and site_type for the header h
DimensionOf(strategy, m, h) ==
    CASE strategy \in {"week_region", "month_region"} ->
            m.region = Str(h) /\ m.site_type = Str(AllText)
      [] strategy \in {"week_site", "month_site"} ->
            m.site_type = Str(h) /\ m.region = Str(UKTotalText)
      [] OTHER ->
            /\ m.region.t = "str"
            /\ \/ m.site_type = None /\ m.region.s = h
               \/ /\ m.site_type.t = "str"
                  /\ EndsWith(h, m.site_type.s)
                  /\ StartsWith(h, m.region.s)

\* C4: each of the six melts of a table with R rows and N value columns
\* gives exactly R x N rows, one per (row, value column) pair, with the
\* row's Date, the column header as the dimension and the cell as
\* footfall_index; the returned table keeps all R x N of them, with
\* footfall_index missing exactly where the cell is empty or no number.
C4_MeltKeepsEveryCell ==
    stage \in {"long", "out"} =>
        LET r  == Len(table.rows)
            n  == Len(table.cols) - 1
            dp == CHOOSE x \in 1..Len(table.cols) : table.cols[x] = DateText
            pt == IF long.strategy \in {"week_region", "week_site", "week_region_site"}
                  THEN "week" ELSE "month"
        IN  /\ Len(long.rows) = r * n
            /\ stage = "out" => Len(out) = r * n
            /\ \A i \in 1..r, j \in 1..n :
                  LET k    == (j - 1) * r + i
                      cell == table.rows[i][ValueColumn(j)]
                  IN  /\ long.rows[k].Date = table.rows[i][dp]
                      /\ long.rows[k].footfall_index = cell
                      /\ long.rows[k].period_type = pt
                      /\ DimensionOf(long.strategy, long.rows[k], table.cols[ValueColumn(j)])
                      /\ stage = "out" =>
                            /\ out[k].period_type = pt
                            /\ out[k].period_end_dt.t = "date"
                            /\ out[k].footfall_index = IF cell.t = "num" THEN cell ELSE NaN

\* a 2 x 2 table with an empty cell and a text cell went through the weekly
\* combined strategy and parse_footfall_data
C4_Witness ==
    /\ stage = "out"
    /\ long.strategy = "week_region_site"
    /\ Len(table.rows) = 2
    /\ Len(table.cols) = 3
    /\ Len(out) = 4
    /\ \E i \in 1..2, j \in 1..3 : table.rows[i][j] = NaN
    /\ \E i \in 1..2, j \in 1..3 : table.rows[i][j].t = "str"

\* C5: when the first cell (row-major) whose trimmed text is "Date" is at
\* row r, column c, the returned table has "Date" as its first column, only
\* columns at index >= c, no column whose header cell is empty or an
\* "Unnamed" placeholder, and as rows exactly the grid rows below r that
\* are not entirely empty.
C5_NormalizedTableShape ==
    (stage = "normalized" /\ DateCells(grid) # {} /\ norm.ok) =>
        LET r == FirstDateCell(grid)[1]
            c == FirstDateCell(grid)[2]
            nonEmpty == {i \in (r + 1)..Len(grid) :
                            \E j \in 1..Width(grid) : ~IsNA(grid[i][j])}
            below == [i \in 1..(Len(grid) - r) |->
                        [x \in 1..Len(norm.src) |-> grid[r + i][norm.src[x]]]]
        IN  /\ norm.cols[1] = DateText
            /\ \A x \in 1..Len(norm.src) :
                  /\ norm.src[x] >= c
                  /\ ~IsNA(grid[r][norm.src[x]])
                  /\ ~StartsWith(AsTypeStr(grid[r][norm.src[x]]), UnnamedText)
            /\ norm.rows = SelectAt(below, {i - r : i \in nonEmpty}, 1)

----------------------------------------------------------------------------
(* Properties of upsert_dataframe *)

\* C7: upsert_dataframe run twice with the same long table leaves what one
\* run leaves: the same number of stored rows, no two stored rows with the
\* same key, and the footfall_index and period_start_dt of every row as the
\* first run left them; for every long table, those with a missing region
\* or date and those with two records of one key included.
C7_SecondRunChangesNothing ==
    /\ KeyUnique(db)
    /\ runs >= 2 =>
          /\ Cardinality(db) = Cardinality(first)
          /\ Unstamped(db) = Unstamped(first)

\* the same table was upserted twice and committed; it holds two records
\* of one key, on different pages, with different values
C7_Witness ==
    /\ runs = 2
    /\ ret.status = "ok"
    /\ Len(df) = 3
    /\ Key(df[1]) = Key(df[3])
    /\ df[1].footfall_index # df[3].footfall_index
    /\ Cardinality(db) = 2

\* the last record of df with the key k
Incoming(k) ==
    df[CHOOSE i \in 1..Len(df) :
          /\ Key(df[i]) = k
          /\ \A j \in 1..Len(df) : Key(df[j]) = k => j <= i]

IncomingKeys == {Key(df[i]) : i \in 1..Len(df)}

CommittedUpsert == runs' = runs + 1 /\ ret'.status = "ok"

\* C8 as stated: on a key collision the stored row takes footfall_index and
\* period_start of the incoming record and no other stored field of the row
\* changes; rows with other keys are left unchanged.
C8_OnlyValueAndStartChange ==
    [][CommittedUpsert =>
          \A x \in db :
             IF Key(x) \in IncomingKeys
             THEN [x EXCEPT !.footfall_index = Incoming(Key(x)).footfall_index,
                            !.period_start_dt = Incoming(Key(x)).period_start_dt]
                    \in db'
             ELSE x \in db']_vars

\* C8 amended: on a key collision in a call that commits, the stored row
\* takes footfall_index and period_start of the last incoming record of
\* that key and its inserted_at becomes the time of the call; the key
\* fields keep their values and rows with other keys are left unchanged.
C8_ValueStartAndStampChange ==
    [][CommittedUpsert =>
          \A x \in db :
             IF Key(x) \in IncomingKeys
             THEN [x EXCEPT !.footfall_index = Incoming(Key(x)).footfall_index,
                            !.period_start_dt = Incoming(Key(x)).period_start_dt,
                            !.inserted_at = clock]
                    \in db'
             ELSE x \in db']_vars

\* a committed call has overwritten the value and the start of a row that
\* an earlier ingestion stored, and left another stored row alone
C8_Witness ==
    /\ runs = 1
    /\ ret.status = "ok"
    /\ \E x \in db :
          /\ x.inserted_at = 1
          /\ x.footfall_index = Num(2)
          /\ x.period_start_dt = Day(20250305)
          /\ Stored(Rec("month", Day(20250301), Day(20250331), Str(<<"A">>), Num(1)), 0)
               \notin db
    /\ \E x \in db : x.inserted_at = 0
    /\ Len(df) = 1

====
